---- MODULE Spec2Model ----
(***************************************************************************)
(* Typogenetics (typogenetics/main.py): strands, the ribosome              *)
(* (create_enzyme_s), the action of one enzyme on one strand (Operation)   *)
(* and the generation driver (run_a_set_of_generations).                   *)
(*                                                                         *)
(* A Python string is a sequence of one-character strings; the blank " "   *)
(* is the gap.  Python indices are 0-based, sequences here are 1-based.    *)
(***************************************************************************)
EXTENDS Integers, Sequences, FiniteSets, TLC

VARIABLES
    \* create_enzyme_s on one strand
    tr_string, tr_codons, tr_enzymes, tr_pc,
    \* one Operation
    enzyme, strand, second_strand, copy_mode, bound, seq_i, strings,
    final_strings, raised, op_pc,
    \* run_a_set_of_generations
    starting_string, max_iterations, strands, enzymes, temp_strands,
    strings_per_generation, i, enzyme_k, gen_strands, broken, loop_found,
    exception, pc

tr_vars == <<tr_string, tr_codons, tr_enzymes, tr_pc>>
op_vars == <<enzyme, strand, second_strand, copy_mode, bound, seq_i, strings,
             final_strings, raised, op_pc>>
gen_vars == <<starting_string, max_iterations, strands, enzymes, temp_strands,
              strings_per_generation, i, enzyme_k, gen_strands, broken,
              loop_found, exception, pc>>
vars == <<tr_vars, op_vars, gen_vars>>

-----------------------------------------------------------------------------
(* Bounds of the model *)

\* longest strand translated by the ribosome specification
MaxGene == 6
\* longest command sequence of an enzyme handed to an Operation
MaxSeq == 3
\* longest strand handed to an Operation
MaxLen == 3
\* longest exhaustively enumerated starting string of the driver
MaxStart == 4
\* largest max_iterations of the driver
MaxIter == 3
\* longest list of strings a generation records in the evaluation
\* specification
MaxList == 3
\* longest direction list handed to Enzyme.__init__ on its own
MaxDirs == 6

(* Constants of the program *)

\* a generation that produced more strands than this aborts the run
MaxStrands == 20
\* a generation with more enzymes than this aborts the run
MaxEnzymes == 10

-----------------------------------------------------------------------------
(* Python string primitives *)

Bases == {"A", "T", "G", "C"}
Gap == " "

\* all strings over S of length 0..n
StringsUpTo(S, n) == UNION {[1..k -> S] : k \in 0..n}

\* s[k] with Python's negative indices; outside -len..len-1 Python raises
PyIndex(s, k) ==
    IF k >= 0 /\ k < Len(s) THEN s[k + 1]
    ELSE IF k < 0 /\ k >= -Len(s) THEN s[Len(s) + k + 1]
    ELSE "IndexError"

\* a slice bound as Python normalises it
PyClamp(s, k) ==
    IF k < 0 THEN (IF Len(s) + k < 0 THEN 0 ELSE Len(s) + k)
    ELSE IF k > Len(s) THEN Len(s) ELSE k

\* s[a:b]
PySlice(s, a, b) == SubSeq(s, PyClamp(s, a) + 1, PyClamp(s, b))
\* s[:b]
PyTo(s, b) == PySlice(s, 0, b)
\* s[a:]
PyFrom(s, a) == PySlice(s, a, Len(s))
\* s[::-1]
PyReverse(s) == [k \in 1..Len(s) |-> s[Len(s) + 1 - k]]
\* c in s
PyIn(c, s) == \E k \in 1..Len(s) : s[k] = c
\* s.find(c) for a one-character c
PyFind(s, c) ==
    IF PyIn(c, s) THEN (CHOOSE k \in 1..Len(s) :
                           s[k] = c /\ \A j \in 1..(k - 1) : s[j] # c) - 1
    ELSE -1
\* n * " "
Blanks(n) == [k \in 1..n |-> Gap]
\* xs.count(x)
PyCount(xs, x) == Cardinality({k \in 1..Len(xs) : xs[k] = x})

\* s.split(" "): the pieces between blanks, empty pieces included
RECURSIVE SplitFrom(_, _, _)
SplitFrom(s, k, piece) ==
    IF k > Len(s) THEN <<piece>>
    ELSE IF s[k] = Gap THEN <<piece>> \o SplitFrom(s, k + 1, <<>>)
    ELSE SplitFrom(s, k + 1, Append(piece, s[k]))
PySplit(s) == SplitFrom(s, 1, <<>>)

\* round(t / 10) as Python rounds: to nearest, ties to the even integer
PyRoundTenths(t) ==
    LET q == t \div 10
        r == t % 10
    IN  IF r < 5 THEN q
        ELSE IF r > 5 THEN q + 1
        ELSE IF q % 2 = 0 THEN q ELSE q + 1

-----------------------------------------------------------------------------
(* The instruction table and the small helpers *)

AMINO_DICT ==
    (<<"A", "A">> :> [amino |-> "punctuation", direction |-> "N/A"]) @@
    (<<"A", "C">> :> [amino |-> "cut", direction |-> "s"]) @@
    (<<"A", "G">> :> [amino |-> "del", direction |-> "s"]) @@
    (<<"A", "T">> :> [amino |-> "swi", direction |-> "r"]) @@
    (<<"C", "A">> :> [amino |-> "mvr", direction |-> "s"]) @@
    (<<"C", "C">> :> [amino |-> "mvl", direction |-> "s"]) @@
    (<<"C", "G">> :> [amino |-> "cop", direction |-> "r"]) @@
    (<<"C", "T">> :> [amino |-> "off", direction |-> "l"]) @@
    (<<"G", "A">> :> [amino |-> "ina", direction |-> "s"]) @@
    (<<"G", "C">> :> [amino |-> "inc", direction |-> "r"]) @@
    (<<"G", "G">> :> [amino |-> "ing", direction |-> "r"]) @@
    (<<"G", "T">> :> [amino |-> "int", direction |-> "l"]) @@
    (<<"T", "A">> :> [amino |-> "rpy", direction |-> "r"]) @@
    (<<"T", "C">> :> [amino |-> "rpu", direction |-> "l"]) @@
    (<<"T", "G">> :> [amino |-> "lpy", direction |-> "l"]) @@
    (<<"T", "T">> :> [amino |-> "lpu", direction |-> "l"])

\* the 15 commands an enzyme is made of
Commands == {AMINO_DICT[c].amino : c \in DOMAIN AMINO_DICT} \ {"punctuation"}

\* the direction the table gives a command
DirectionOf(a) ==
    AMINO_DICT[CHOOSE c \in DOMAIN AMINO_DICT : AMINO_DICT[c].amino = a].direction

counterpart(B) ==
    CASE B = "A" -> "T"
      [] B = "T" -> "A"
      [] B = "C" -> "G"
      [] B = "G" -> "C"
      [] B = " " -> " "
      [] OTHER -> "None"

\* a variant of find_preferential_binding whose remainder keeps the sign of
\* count(r) - count(l), as a truncating division gives it
find_preferential_binding_truncated(dirs) ==
    LET d == PyCount(dirs, "r") - PyCount(dirs, "l")
        net_right_turns == IF d >= 0 THEN d % 4 ELSE -((-d) % 4)
    IN  IF net_right_turns = 0 THEN "A"
        ELSE IF net_right_turns = 1 THEN "G"
        ELSE IF net_right_turns = 2 THEN "T"
        ELSE "C"

find_preferential_binding(dirs) ==
    LET net_right_turns == (PyCount(dirs, "r") - PyCount(dirs, "l")) % 4
    IN  IF net_right_turns = 0 THEN "A"
        ELSE IF net_right_turns = 1 THEN "G"
        ELSE IF net_right_turns = 2 THEN "T"
        ELSE "C"

\* Strand.derive_codons
derive_codons(string) ==
    [k \in 1..PyRoundTenths(5 * Len(string) + 1) |->
        PySlice(string, 2 * (k - 1), 2 * (k - 1) + 2)]

\* Enzyme.__init__
Enzyme(seq, directions) ==
    [seq |-> seq, directions |-> directions,
     preferential_binding |-> find_preferential_binding(directions)]

-----------------------------------------------------------------------------
(* The ribosome *)

\* a variant of CreateReturn that drops the open enzyme at the end of input
CreateReturnClosed(enzs, seq, dirs) == [raised |-> "none", enzymes |-> enzs]

\* the enzyme list returned after the loop
CreateReturn(enzs, seq, dirs) ==
    [raised |-> "none",
     enzymes |-> IF seq # <<>> THEN Append(enzs, Enzyme(seq, dirs)) ELSE enzs]

\* the loop over strand.codons from codon k on; raised is "KeyError" when a
\* codon is no key of AMINO_DICT
RECURSIVE CreateLoop(_, _, _, _, _)
CreateLoop(codons, k, enzs, seq, dirs) ==
    IF k > Len(codons) THEN CreateReturn(enzs, seq, dirs)
    ELSE LET entry == codons[k] IN
         IF Len(entry) = 1 THEN CreateReturn(enzs, seq, dirs)
         ELSE IF entry \notin DOMAIN AMINO_DICT
         THEN [raised |-> "KeyError", enzymes |-> <<>>]
         ELSE LET amino == AMINO_DICT[entry].amino
                  dir == AMINO_DICT[entry].direction
              IN  IF amino = "punctuation"
                  THEN CreateLoop(codons, k + 1,
                                  Append(enzs, Enzyme(seq, dirs)), <<>>, <<>>)
                  ELSE CreateLoop(codons, k + 1, enzs,
                                  Append(seq, amino), Append(dirs, dir))

\* a variant of create_enzyme_s that keeps no enzyme without commands
create_enzyme_s_nonempty(codons) ==
    LET r == CreateLoop(codons, 1, <<>>, <<>>, <<>>) IN
    [r EXCEPT !.enzymes = SelectSeq(r.enzymes, LAMBDA e : e.seq # <<>>)]

create_enzyme_s(codons) == CreateLoop(codons, 1, <<>>, <<>>, <<>>)

-----------------------------------------------------------------------------
(* Operation: one enzyme acting on one strand.  An Operation object is the *)
(* record o; raised names the exception an out-of-range index raises.      *)

\* a variant of NewOperation whose second strand starts as a copy of the
\* strand instead of blanks
NewOperationCopied(string) ==
    [strand |-> string, second_strand |-> string,
     copy_mode |-> FALSE, final_strings |-> <<>>, strings |-> <<>>,
     seq_i |-> 0, bound |-> -1, raised |-> "none"]

\* Operation.__init__ up to the call of operate, and operate's seq_i = 0
NewOperation(string) ==
    [strand |-> string, second_strand |-> Blanks(Len(string)),
     copy_mode |-> FALSE, final_strings |-> <<>>, strings |-> <<>>,
     seq_i |-> 0, bound |-> -1, raised |-> "none"]

\* second_strand with the counterpart of strand[bound] written at bound;
\* str + None raises TypeError
CopyAtBound(o) ==
    IF counterpart(PyIndex(o.strand, o.bound)) = "None"
    THEN [o EXCEPT !.raised = "TypeError"]
    ELSE [o EXCEPT !.second_strand =
            PyTo(o.second_strand, o.bound)
            \o <<counterpart(PyIndex(o.strand, o.bound))>>
            \o PyFrom(o.second_strand, o.bound + 1)]

move_right(o) ==
    LET m == [o EXCEPT !.bound = o.bound + 1] IN
    IF  /\ m.bound < Len(m.strand) - 1
        /\ m.copy_mode
        /\ PyIndex(m.second_strand, m.bound) = Gap
    THEN CopyAtBound(m) ELSE m

move_left(o) ==
    LET m == [o EXCEPT !.bound = o.bound - 1] IN
    IF  /\ m.bound > -1
        /\ m.copy_mode
        /\ PyIndex(m.second_strand, m.bound) = Gap
    THEN CopyAtBound(m) ELSE m

bind(e, o) == [o EXCEPT !.bound = PyFind(o.strand, e.preferential_binding)]

iter_punctuation(o) == [o EXCEPT !.bound = -1]
iter_off(o) == [o EXCEPT !.copy_mode = FALSE]
iter_cop(o) == [o EXCEPT !.copy_mode = TRUE]

\* a variant of iter_del that deletes from the second strand as well
iter_del_both(o) ==
    [o EXCEPT
        !.strand = (PyTo(o.strand, o.bound)
                    \o PyFrom(o.strand, o.bound + 1)) \o <<Gap>>,
        !.second_strand = (PyTo(o.second_strand, o.bound)
                           \o PyFrom(o.second_strand, o.bound + 1)) \o <<Gap>>]

\* a variant of iter_del that appends no gap to the strand
iter_del_short(o) ==
    [o EXCEPT !.strand = PyTo(o.strand, o.bound)
                         \o PyFrom(o.strand, o.bound + 1)]

iter_del(o) ==
    [o EXCEPT !.strand = (PyTo(o.strand, o.bound)
                          \o PyFrom(o.strand, o.bound + 1)) \o <<Gap>>]

\* a variant of iter_insert that writes the counterpart whatever the copy mode
iter_insert_copying(o, B) ==
    [o EXCEPT
        !.strand = PyTo(o.strand, o.bound + 1) \o <<B>>
                   \o PyFrom(o.strand, o.bound + 1),
        !.second_strand =
            PyTo(o.second_strand, o.bound + 1)
            \o <<counterpart(B)>>
            \o PyFrom(o.second_strand, o.bound + 1)]

\* ina, ing, int, inc: the same code with the base B
iter_insert(o, B) ==
    [o EXCEPT
        !.strand = PyTo(o.strand, o.bound + 1) \o <<B>>
                   \o PyFrom(o.strand, o.bound + 1),
        !.second_strand =
            PyTo(o.second_strand, o.bound + 1)
            \o <<IF o.copy_mode THEN counterpart(B) ELSE Gap>>
            \o PyFrom(o.second_strand, o.bound + 1)]

\* a variant of iter_cut that leaves the enzyme on the first symbol
iter_cut_rewind(o) ==
    [o EXCEPT
        !.strings = o.strings \o <<PyFrom(o.strand, o.bound + 1),
                        PyReverse(PyFrom(o.second_strand, o.bound + 1))>>,
        !.strand = PyTo(o.strand, o.bound + 1),
        !.second_strand = PyTo(o.second_strand, o.bound + 1),
        !.bound = 0]

\* a variant of iter_cut that records the second strand's tail unreversed
iter_cut_unreversed(o) ==
    [o EXCEPT
        !.strings = o.strings \o <<PyFrom(o.strand, o.bound + 1),
                                   PyFrom(o.second_strand, o.bound + 1)>>,
        !.strand = PyTo(o.strand, o.bound + 1),
        !.second_strand = PyTo(o.second_strand, o.bound + 1),
        !.bound = Len(PyTo(o.strand, o.bound + 1)) - 1]

iter_cut(o) ==
    [o EXCEPT
        !.strings = o.strings \o <<PyFrom(o.strand, o.bound + 1),
                        PyReverse(PyFrom(o.second_strand, o.bound + 1))>>,
        !.strand = PyTo(o.strand, o.bound + 1),
        !.second_strand = PyTo(o.second_strand, o.bound + 1),
        !.bound = Len(PyTo(o.strand, o.bound + 1)) - 1]

\* a variant of iter_swi that swaps the strands without reversing them
iter_swi_unreversed(o) ==
    IF PyIndex(o.second_strand, o.bound) = "IndexError"
    THEN [o EXCEPT !.raised = "IndexError"]
    ELSE IF PyIndex(o.second_strand, o.bound) = Gap
    THEN [o EXCEPT !.bound = -1]
    ELSE [o EXCEPT
            !.strand = o.second_strand,
            !.second_strand = o.strand,
            !.bound = Len(o.second_strand) - o.bound - 1]

iter_swi(o) ==
    IF PyIndex(o.second_strand, o.bound) = "IndexError"
    THEN [o EXCEPT !.raised = "IndexError"]
    ELSE IF PyIndex(o.second_strand, o.bound) = Gap
    THEN [o EXCEPT !.bound = -1]
    ELSE [o EXCEPT
            !.strand = PyReverse(o.second_strand),
            !.second_strand = PyReverse(o.strand),
            !.bound = Len(o.second_strand) - o.bound - 1]

\* while strand[bound] is neither in targets nor the gap: move_right()
RECURSIVE ScanRight(_, _)
ScanRight(o, targets) ==
    LET c == PyIndex(o.strand, o.bound) IN
    IF o.raised # "none" THEN o
    ELSE IF c = "IndexError" THEN [o EXCEPT !.raised = "IndexError"]
    ELSE IF c \notin targets /\ c # Gap THEN ScanRight(move_right(o), targets)
    ELSE o

\* while strand[bound] is neither in targets nor the gap: move_left()
RECURSIVE ScanLeft(_, _)
ScanLeft(o, targets) ==
    LET c == PyIndex(o.strand, o.bound) IN
    IF o.raised # "none" THEN o
    ELSE IF c = "IndexError" THEN [o EXCEPT !.raised = "IndexError"]
    ELSE IF c \notin targets /\ c # Gap THEN ScanLeft(move_left(o), targets)
    ELSE o

\* if strand[bound] == " ": bound = -1
DetachOnGap(o) ==
    IF o.raised # "none" THEN o
    ELSE IF PyIndex(o.strand, o.bound) = "IndexError"
    THEN [o EXCEPT !.raised = "IndexError"]
    ELSE IF PyIndex(o.strand, o.bound) = Gap THEN [o EXCEPT !.bound = -1]
    ELSE o

\* rpy (targets T, C) and rpu (targets A, G)
iter_right(o, targets) ==
    LET m == move_right(o) IN
    IF m.raised # "none" THEN m
    ELSE IF m.bound >= Len(m.strand) - 1 THEN m
    ELSE IF \E t \in targets : PyIn(t, PyFrom(m.strand, m.bound + 1))
    THEN DetachOnGap(ScanRight(m, targets))
    ELSE m

iter_lpy(o) ==
    IF PyIn("T", PyTo(o.strand, o.bound)) \/ PyIn("C", PyTo(o.strand, o.bound))
    THEN DetachOnGap(ScanLeft(move_left(o), {"T", "C"}))
    ELSE o

iter_lpu(o) ==
    LET m == move_left(o) IN
    IF m.raised # "none" THEN m
    ELSE IF PyIn("A", PyTo(m.strand, m.bound)) \/ PyIn("G", PyTo(m.strand, m.bound))
    THEN DetachOnGap(ScanLeft(m, {"A", "G"}))
    ELSE m

\* the values of bound at which the while loop of a scan reads strand[bound],
\* in order; step is 1 for move_right and -1 for move_left
RECURSIVE ScanReads(_, _, _)
ScanReads(o, targets, step) ==
    LET c == PyIndex(o.strand, o.bound) IN
    IF o.raised # "none" THEN <<>>
    ELSE IF c = "IndexError" THEN <<o.bound>>
    ELSE IF c \notin targets /\ c # Gap
    THEN <<o.bound>> \o ScanReads(IF step = 1 THEN move_right(o)
                                  ELSE move_left(o), targets, step)
    ELSE <<o.bound>>

\* the values of bound at which rpy, rpu, lpy or lpu, dispatched on o, reads
\* strand[bound]; no value for any other command
iter_reads(e, o) ==
    LET action == e.seq[o.seq_i + 1]
        targets == IF action \in {"rpy", "lpy"} THEN {"T", "C"}
                   ELSE {"A", "G"}
        r == move_right(o)
        l == move_left(o)
    IN  CASE action \in {"rpy", "rpu"} ->
               IF r.raised # "none" \/ r.bound >= Len(r.strand) - 1 THEN <<>>
               ELSE IF \E t \in targets : PyIn(t, PyFrom(r.strand, r.bound + 1))
               THEN ScanReads(r, targets, 1)
               ELSE <<>>
          [] action = "lpy" ->
               IF \E t \in targets : PyIn(t, PyTo(o.strand, o.bound))
               THEN ScanReads(l, targets, -1)
               ELSE <<>>
          [] action = "lpu" ->
               IF l.raised = "none"
                  /\ \E t \in targets : PyIn(t, PyTo(l.strand, l.bound))
               THEN ScanReads(l, targets, -1)
               ELSE <<>>
          [] OTHER -> <<>>

\* Operation.iter: the command at seq_i
iter(e, o) ==
    LET action == e.seq[o.seq_i + 1] IN
    CASE action = "punctuation" -> iter_punctuation(o)
      [] action = "off" -> iter_off(o)
      [] action = "cop" -> iter_cop(o)
      [] action = "del" -> iter_del(o)
      [] action = "ina" -> iter_insert(o, "A")
      [] action = "ing" -> iter_insert(o, "G")
      [] action = "int" -> iter_insert(o, "T")
      [] action = "inc" -> iter_insert(o, "C")
      [] action = "cut" -> iter_cut(o)
      [] action = "swi" -> iter_swi(o)
      [] action = "mvr" -> move_right(o)
      [] action = "mvl" -> move_left(o)
      [] action = "rpy" -> iter_right(o, {"T", "C"})
      [] action = "rpu" -> iter_right(o, {"A", "G"})
      [] action = "lpy" -> iter_lpy(o)
      [] action = "lpu" -> iter_lpu(o)
      [] OTHER -> o

\* the condition of operate's while loop
LoopCondition(e, o) ==
    /\ o.bound > -1
    /\ o.bound < Len(o.strand) - 1
    /\ o.seq_i < Len(e.seq)

\* a variant of LoopBody that advances seq_i by two
LoopBodySkip(e, o) ==
    LET m == iter(e, o) IN
    IF m.raised # "none" THEN m ELSE [m EXCEPT !.seq_i = m.seq_i + 2]

\* one pass of the while loop: iter(), then seq_i += 1
LoopBody(e, o) ==
    LET m == iter(e, o) IN
    IF m.raised # "none" THEN m ELSE [m EXCEPT !.seq_i = m.seq_i + 1]

\* the pieces of s.split(" ") that are kept
KeptPieces(s) ==
    SelectSeq(PySplit(s), LAMBDA piece : Len(piece) > 0 /\ ~PyIn(Gap, piece))

RECURSIVE KeptOfAll(_, _)
KeptOfAll(ss, k) ==
    IF k > Len(ss) THEN <<>> ELSE KeptPieces(ss[k]) \o KeptOfAll(ss, k + 1)

\* a variant of Assemble that puts the second strand's pieces before the
\* primary strand's
AssembleSecondFirst(o) ==
    [o EXCEPT !.final_strings =
        ((o.final_strings \o KeptOfAll(o.strings, 1))
         \o KeptPieces(o.second_strand)) \o KeptPieces(o.strand)]

\* the rest of operate after the while loop
Assemble(o) ==
    [o EXCEPT !.final_strings =
        ((o.final_strings \o KeptOfAll(o.strings, 1))
         \o KeptPieces(o.strand)) \o KeptPieces(o.second_strand)]

\* operate from the while loop on
RECURSIVE OperateLoop(_, _)
OperateLoop(e, o) ==
    IF o.raised # "none" THEN o
    ELSE IF LoopCondition(e, o) THEN OperateLoop(e, LoopBody(e, o))
    ELSE Assemble(o)

\* Operation(enzyme, strand): the object once __init__ has returned
Operation(e, string) == OperateLoop(e, bind(e, NewOperation(string)))

-----------------------------------------------------------------------------
(* Values of the variables a specification does not use *)

TrIdle ==
    /\ tr_string = <<>> /\ tr_codons = <<>> /\ tr_enzymes = <<>>
    /\ tr_pc = "idle"

OpIdle ==
    /\ enzyme = Enzyme(<<>>, <<>>) /\ strand = <<>> /\ second_strand = <<>>
    /\ copy_mode = FALSE /\ bound = -1 /\ seq_i = 0 /\ strings = <<>>
    /\ final_strings = <<>> /\ raised = "none" /\ op_pc = "idle"

GenIdle ==
    /\ starting_string = <<>> /\ max_iterations = 0 /\ strands = <<>>
    /\ enzymes = <<>> /\ temp_strands = [assigned |-> FALSE, list |-> <<>>]
    /\ strings_per_generation = <<>> /\ i = 0 /\ enzyme_k = 0
    /\ gen_strands = <<>> /\ broken = FALSE /\ loop_found = FALSE
    /\ exception = "none" /\ pc = "idle"

-----------------------------------------------------------------------------
(* SpecTr: the ribosome on every strand of up to MaxGene bases *)

InitTr ==
    /\ tr_string \in StringsUpTo(Bases, MaxGene)
    /\ tr_codons = <<>> /\ tr_enzymes = <<>> /\ tr_pc = "derive"
    /\ OpIdle /\ GenIdle

\* strand.derive_codons()
DeriveCodons ==
    /\ tr_pc = "derive"
    /\ tr_codons' = derive_codons(tr_string)
    /\ tr_pc' = "create"
    /\ UNCHANGED <<tr_string, tr_enzymes, op_vars, gen_vars>>

\* create_enzyme_s(strand)
CreateEnzymes ==
    /\ tr_pc = "create"
    /\ tr_enzymes' = create_enzyme_s(tr_codons).enzymes
    /\ tr_pc' = "done"
    /\ UNCHANGED <<tr_string, tr_codons, op_vars, gen_vars>>

NextTr == DeriveCodons \/ CreateEnzymes

SpecTr == InitTr /\ [][NextTr]_vars

-----------------------------------------------------------------------------
(* SpecOp: one Operation, for every enzyme of up to MaxSeq commands and     *)
(* every gap-free strand of up to MaxLen bases                              *)

\* the Operation object as a record
Self ==
    [strand |-> strand, second_strand |-> second_strand,
     copy_mode |-> copy_mode, final_strings |-> final_strings,
     strings |-> strings, seq_i |-> seq_i, bound |-> bound,
     raised |-> raised]

\* the Operation object is o
Is(o) ==
    /\ strand = o.strand /\ second_strand = o.second_strand
    /\ copy_mode = o.copy_mode /\ final_strings = o.final_strings
    /\ strings = o.strings /\ seq_i = o.seq_i /\ bound = o.bound
    /\ raised = o.raised

\* the Operation object becomes o
Becomes(o) ==
    /\ strand' = o.strand /\ second_strand' = o.second_strand
    /\ copy_mode' = o.copy_mode /\ final_strings' = o.final_strings
    /\ strings' = o.strings /\ seq_i' = o.seq_i /\ bound' = o.bound
    /\ raised' = o.raised

InitOp ==
    /\ \E seq \in StringsUpTo(Commands, MaxSeq) :
          enzyme = Enzyme(seq, [k \in 1..Len(seq) |-> DirectionOf(seq[k])])
    /\ \E string \in StringsUpTo(Bases, MaxLen) :
          Is(NewOperation(string))
    /\ op_pc = "bind"
    /\ TrIdle /\ GenIdle

\* self.bind()
Bind ==
    /\ op_pc = "bind"
    /\ Becomes(bind(enzyme, Self))
    /\ op_pc' = "loop"
    /\ UNCHANGED <<enzyme, tr_vars, gen_vars>>

\* one pass of the while loop of operate
Dispatch ==
    /\ op_pc = "loop"
    /\ LoopCondition(enzyme, Self)
    /\ Becomes(LoopBody(enzyme, Self))
    /\ op_pc' = IF LoopBody(enzyme, Self).raised # "none" THEN "raised"
                ELSE "loop"
    /\ UNCHANGED <<enzyme, tr_vars, gen_vars>>

\* the while loop ends; the final strings are collected
Finish ==
    /\ op_pc = "loop"
    /\ ~LoopCondition(enzyme, Self)
    /\ Becomes(Assemble(Self))
    /\ op_pc' = "done"
    /\ UNCHANGED <<enzyme, tr_vars, gen_vars>>

NextOp == Bind \/ Dispatch \/ Finish

SpecOp == InitOp /\ [][NextOp]_vars

-----------------------------------------------------------------------------
(* SpecEnz: Enzyme.__init__ for every command sequence of up to MaxDirs     *)
(* commands turning right (cop), left (off) or not at all (mvr), with the   *)
(* directions the table gives them                                          *)

\* one command of each direction
TurnCommands == {"cop", "off", "mvr"}

\* self.seq and self.directions are assigned, preferential_binding is not yet
InitEnz ==
    /\ \E seq \in StringsUpTo(TurnCommands, MaxDirs) :
          enzyme = [seq |-> seq,
                    directions |-> [k \in 1..Len(seq) |-> DirectionOf(seq[k])],
                    preferential_binding |-> "unset"]
    /\ strand = <<>> /\ second_strand = <<>>
    /\ copy_mode = FALSE /\ bound = -1 /\ seq_i = 0 /\ strings = <<>>
    /\ final_strings = <<>> /\ raised = "none" /\ op_pc = "enzyme"
    /\ TrIdle /\ GenIdle

\* self.preferential_binding = find_preferential_binding(self.directions)
MakeEnzyme ==
    /\ op_pc = "enzyme"
    /\ enzyme' = Enzyme(enzyme.seq, enzyme.directions)
    /\ op_pc' = "made"
    /\ UNCHANGED <<strand, second_strand, copy_mode, bound, seq_i, strings,
                   final_strings, raised, tr_vars, gen_vars>>

NextEnz == MakeEnzyme

SpecEnz == InitEnz /\ [][NextEnz]_vars

-----------------------------------------------------------------------------
(* SpecGen: run_a_set_of_generations with verbose = False.  A Strand of the *)
(* list strands is its string; its codons are derived where they are used.  *)

\* for strand in strands: enzymes.extend(create_enzyme_s(strand))
RECURSIVE TranslateAll(_, _, _)
TranslateAll(ss, k, enzs) ==
    IF k > Len(ss) THEN [raised |-> "none", enzymes |-> enzs]
    ELSE LET r == create_enzyme_s(derive_codons(ss[k])) IN
         IF r.raised # "none" THEN r
         ELSE TranslateAll(ss, k + 1, enzs \o r.enzymes)

\* the Operations of one enzyme on the strands of ss, in order
OperationsOf(e, ss) == [k \in 1..Len(ss) |-> Operation(e, ss[k])]

\* temp_strands after the inner loop over the Operations ops
RECURSIVE ExtendAll(_, _)
ExtendAll(ops, k) ==
    IF k > Len(ops) THEN <<>>
    ELSE ops[k].final_strings \o ExtendAll(ops, k + 1)

\* a variant of identify_duplicates that returns every element of the list
identify_duplicates_all(the_list) == {the_list[b] : b \in 1..Len(the_list)}

identify_duplicates(the_list) ==
    {the_list[b] : b \in {b \in 1..Len(the_list) :
                            \E a \in 1..(b - 1) : the_list[a] = the_list[b]}}

\* the evaluation loop for generations k, k - 1, ..., 0
RECURSIVE EvalLoop(_, _, _)
EvalLoop(spg, k, start) ==
    IF k < 0 THEN FALSE
    ELSE (start \in identify_duplicates(spg[k])) \/ EvalLoop(spg, k - 1, start)

\* starting strings beyond the exhaustively enumerated short ones
ManyPunctuations(n) == [k \in 1..(2 * n) |-> "A"]
\* 20 strands in generation 1, 21 strands in generation 2
TwentyStrands ==
    <<"A", "C", "T", "C", "T", "A", "G", "G", "A", "A",
      "G", "A", "C", "T", "G", "A", "A", "C", "T", "T">>
ManyStrands == <<"C", "G", "T", "G", "G", "A", "C", "C", "G">>
GuardStarts ==
    {ManyPunctuations(MaxEnzymes), ManyPunctuations(MaxEnzymes + 1),
     TwentyStrands, ManyStrands}
BadStarts == {<<"X", "A">>, <<"C", "G", "X">>}
StartStrings ==
    StringsUpTo(Bases, MaxStart) \cup GuardStarts \cup BadStarts

InitGen ==
    /\ starting_string \in StartStrings
    /\ max_iterations \in 0..MaxIter
    /\ strands = <<starting_string>>
    /\ enzymes = <<>>
    /\ temp_strands = [assigned |-> FALSE, list |-> <<>>]
    /\ strings_per_generation = <<>>
    /\ i = 0 /\ enzyme_k = 0 /\ gen_strands = <<>>
    /\ broken = FALSE /\ loop_found = FALSE /\ exception = "none"
    /\ pc = IF 0 < max_iterations THEN "translate" ELSE "eval"
    /\ TrIdle /\ OpIdle

\* the ribosome on every strand alive
Translate ==
    /\ pc = "translate"
    /\ LET r == TranslateAll(strands, 1, <<>>) IN
       /\ enzymes' = r.enzymes
       /\ exception' = r.raised
       /\ pc' = IF r.raised # "none" THEN "raised"
                ELSE IF r.enzymes = <<>> THEN "endgen" ELSE "apply"
    /\ enzyme_k' = 1
    /\ gen_strands' = strands
    /\ UNCHANGED <<starting_string, max_iterations, strands, temp_strands,
                   strings_per_generation, i, broken, loop_found,
                   tr_vars, op_vars>>

\* one pass of the loop over enzymes: the enzyme on every strand of strands
ApplyEnzyme ==
    /\ pc = "apply"
    /\ LET ops == OperationsOf(enzymes[enzyme_k], strands)
           bad == {k \in 1..Len(ops) : ops[k].raised # "none"}
       IN  IF bad # {}
           THEN /\ exception' = ops[CHOOSE k \in bad : \A j \in bad : k <= j].raised
                /\ pc' = "raised"
                /\ UNCHANGED <<temp_strands, strands, enzyme_k>>
           ELSE /\ temp_strands' = [assigned |-> TRUE, list |-> ExtendAll(ops, 1)]
                /\ strands' = IF Len(strands) = 0 THEN strands
                              ELSE ExtendAll(ops, 1)
                /\ enzyme_k' = enzyme_k + 1
                /\ pc' = IF enzyme_k = Len(enzymes) THEN "endgen" ELSE "apply"
                /\ UNCHANGED exception
    /\ UNCHANGED <<starting_string, max_iterations, enzymes,
                   strings_per_generation, i, gen_strands, broken, loop_found,
                   tr_vars, op_vars>>

\* the end of a generation: its strings are recorded, the guard is checked
EndGeneration ==
    /\ pc = "endgen"
    /\ IF ~temp_strands.assigned
       THEN /\ exception' = "UnboundLocalError"
            /\ pc' = "raised"
            /\ UNCHANGED <<strings_per_generation, strands, broken, i>>
       ELSE /\ strings_per_generation' =
                 (i :> temp_strands.list) @@ strings_per_generation
            /\ strands' = temp_strands.list
            /\ IF Len(temp_strands.list) > MaxStrands \/ Len(enzymes) > MaxEnzymes
               THEN broken' = TRUE /\ pc' = "eval" /\ i' = i
               ELSE /\ broken' = broken
                    /\ i' = i + 1
                    /\ pc' = IF i + 1 < max_iterations THEN "translate"
                             ELSE "eval"
            /\ UNCHANGED exception
    /\ UNCHANGED <<starting_string, max_iterations, enzymes, temp_strands,
                   enzyme_k, gen_strands, loop_found, tr_vars, op_vars>>

\* the search for a loop, and the return
Evaluate ==
    /\ pc = "eval"
    /\ loop_found' = IF ~broken
                     THEN EvalLoop(strings_per_generation, max_iterations - 1,
                                   starting_string)
                     ELSE FALSE
    /\ pc' = "returned"
    /\ UNCHANGED <<starting_string, max_iterations, strands, enzymes,
                   temp_strands, strings_per_generation, i, enzyme_k,
                   gen_strands, broken, exception, tr_vars, op_vars>>

NextGen == Translate \/ ApplyEnzyme \/ EndGeneration \/ Evaluate

SpecGen == InitGen /\ [][NextGen]_vars

-----------------------------------------------------------------------------
(* SpecEval: the evaluation at the end of run_a_set_of_generations as a     *)
(* function of what the generations recorded.  The run was not aborted;     *)
(* every generation below max_iterations recorded a list of up to MaxList   *)
(* strings.                                                                 *)

\* the strings a recorded list is made of; the starting string is one of them
EvalStrings == {<<"A">>, <<"C", "G">>}

InitEval ==
    /\ starting_string \in EvalStrings
    /\ max_iterations \in 0..MaxIter
    /\ strings_per_generation \in
          [0..(max_iterations - 1) -> StringsUpTo(EvalStrings, MaxList)]
    /\ strands = IF max_iterations = 0 THEN <<starting_string>>
                 ELSE strings_per_generation[max_iterations - 1]
    /\ temp_strands = [assigned |-> max_iterations > 0, list |-> strands]
    /\ enzymes = <<>> /\ enzyme_k = 0 /\ gen_strands = <<>>
    /\ i = max_iterations
    /\ broken = FALSE /\ loop_found = FALSE /\ exception = "none"
    /\ pc = "eval"
    /\ TrIdle /\ OpIdle

NextEval == Evaluate

SpecEval == InitEval /\ [][NextEval]_vars

-----------------------------------------------------------------------------
(* Properties of the generation driver, checked under SpecGen; C2 under     *)
(* SpecEval and SpecGen                                                     *)

\* the index of the generation recorded last
LastGeneration == Cardinality(DOMAIN strings_per_generation) - 1

\* a generation has just been recorded and no later one has begun
GenerationRecorded ==
    /\ pc \in {"translate", "eval", "returned"}
    /\ DOMAIN strings_per_generation # {}

\* the final strings of every enzyme of es on every strand of ss, enzyme by
\* enzyme, every Operation on a strand alive at the start of the generation
RECURSIVE AllPairs(_, _, _)
AllPairs(es, ss, k) ==
    IF k > Len(es) THEN <<>>
    ELSE ExtendAll(OperationsOf(es[k], ss), 1) \o AllPairs(es, ss, k + 1)

\* C1: the strings a generation produces are the outputs of every enzyme of
\* the generation on every strand alive at its start, one Operation per pair,
\* concatenated with duplicates kept.
C1_EveryEnzymeOnEveryStartStrand ==
    GenerationRecorded =>
        strings_per_generation[LastGeneration]
            = AllPairs(enzymes, gen_strands, 1)

C3_AbortedIsDistinctResult ==
    (pc = "returned" /\ broken) =>
        /\ DOMAIN strings_per_generation = 0..i
        /\ loop_found \notin BOOLEAN

\* a starting string with a symbol outside A, T, G, C, or a bound below 1
InvalidCall ==
    \/ \E k \in 1..Len(starting_string) : starting_string[k] \notin Bases
    \/ max_iterations < 1

\* C4: an invalid call ends in an error before any generation executes:
\* nothing is translated, no Operation runs, no result is returned.
C4_InvalidCallFailsFast ==
    InvalidCall =>
        /\ pc \notin {"apply", "endgen", "returned"}
        /\ enzymes = <<>>
        /\ strings_per_generation = <<>>

-----------------------------------------------------------------------------
(* Properties of one Operation, checked under SpecOp *)

\* C5: after bind and after every command, the bound position is -1 or an
\* index of the primary strand.
C5_BoundIsMinusOneOrIndex ==
    op_pc \in {"loop", "done"} =>
        (bound = -1 \/ (0 <= bound /\ bound < Len(strand)))

\* C6: in every state of an Operation the second strand is as long as the
\* primary strand.
C6_SecondStrandSameLength == Len(second_strand) = Len(strand)

\* a run that has copied a base, inserted a base and deleted one
C6_Witness ==
    /\ op_pc = "loop" /\ seq_i = 3
    /\ \E k \in 1..Len(second_strand) : second_strand[k] \in Bases
    /\ \E k \in 1..Len(strand) : strand[k] = Gap
    /\ Len(strand) > MaxLen

\* C9: an Operation that dispatched no command returns exactly its
\* non-empty input strand (the primary strand, which nothing has touched).
C9_NoDispatchReturnsInput ==
    (op_pc = "done" /\ seq_i = 0 /\ strand # <<>>) =>
        /\ final_strings = <<strand>>
        /\ \A k \in 1..Len(strand) : strand[k] \in Bases

\* the enzyme has commands and did not bind
C9_Witness ==
    /\ op_pc = "done" /\ seq_i = 0 /\ strand # <<>>
    /\ bound = -1 /\ enzyme.seq # <<>>
    /\ final_strings = <<strand>>

\* the maximal gap-free runs of s, left to right
RunStarts(s) ==
    {a \in 1..Len(s) : s[a] # Gap /\ (a = 1 \/ s[a - 1] = Gap)}
RunEnd(s, a) ==
    CHOOSE b \in a..Len(s) :
        /\ \A k \in a..b : s[k] # Gap
        /\ (b = Len(s) \/ s[b + 1] = Gap)
MaximalRuns(s) ==
    [j \in 1..Cardinality(RunStarts(s)) |->
        LET a == CHOOSE a \in RunStarts(s) :
                    Cardinality({x \in RunStarts(s) : x < a}) = j - 1
        IN  SubSeq(s, a, RunEnd(s, a))]
RECURSIVE RunsOfAll(_, _)
RunsOfAll(ss, k) ==
    IF k > Len(ss) THEN <<>> ELSE MaximalRuns(ss[k]) \o RunsOfAll(ss, k + 1)

\* C10: the final strings are non-empty strings over A, T, G, C: the maximal
\* gap-free runs of the fragments cut recorded, then those of the final
\* primary strand, then those of the final second strand.
C10_FinalStringsAreRunsInOrder ==
    op_pc = "done" =>
        /\ final_strings = (RunsOfAll(strings, 1) \o MaximalRuns(strand))
                            \o MaximalRuns(second_strand)
        /\ \A k \in 1..Len(final_strings) :
              /\ final_strings[k] # <<>>
              /\ \A j \in 1..Len(final_strings[k]) :
                    final_strings[k][j] \in Bases

\* a run with a cut whose fragment, primary strand and second strand all
\* contribute strings
C10_Witness ==
    /\ op_pc = "done" /\ Len(strings) = 2
    /\ MaximalRuns(strings[1]) # <<>>
    /\ MaximalRuns(strand) # <<>> /\ MaximalRuns(second_strand) # <<>>
    /\ Len(final_strings) >= 3

-----------------------------------------------------------------------------
(* Properties of the ribosome, checked under SpecTr *)

Punctuation == <<"A", "A">>

\* the complete leading codons of a string: floor(length / 2) of them
LeadingCodons(string) ==
    [k \in 1..(Len(string) \div 2) |-> <<string[2 * k - 1], string[2 * k]>>]

EmptyEnzymeMade == \E k \in 1..Len(tr_enzymes) : tr_enzymes[k].seq = <<>>

AdjacentPunctuations(cs) ==
    \E k \in 1..(Len(cs) - 1) : cs[k] = Punctuation /\ cs[k + 1] = Punctuation

\* C7 as stated: an empty enzyme only when two punctuation codons are
\* adjacent.
C7_EmptyOnlyWhenAdjacent ==
    (tr_pc = "done" /\ EmptyEnzymeMade) =>
        AdjacentPunctuations(LeadingCodons(tr_string))

\* C7 amended: an empty enzyme exactly when the first codon is a punctuation
\* codon or two punctuation codons are adjacent.
C7_EmptyIffLeadingOrAdjacent ==
    tr_pc = "done" =>
        (EmptyEnzymeMade <=>
            LET cs == LeadingCodons(tr_string) IN
            \/ (Len(cs) >= 1 /\ cs[1] = Punctuation)
            \/ AdjacentPunctuations(cs))

\* an empty enzyme from a leading punctuation codon, none adjacent
C7_Witness ==
    /\ tr_pc = "done" /\ EmptyEnzymeMade
    /\ ~AdjacentPunctuations(LeadingCodons(tr_string))
    /\ Len(tr_enzymes) = 2

\* the positions of the punctuation codons in cs, and the j-th of them
\* (0 before the first, Len(cs) + 1 after the last)
PunctuationAt(cs) == {k \in 1..Len(cs) : cs[k] = Punctuation}
NthPunctuation(cs, j) ==
    IF j = 0 THEN 0
    ELSE IF j > Cardinality(PunctuationAt(cs)) THEN Len(cs) + 1
    ELSE CHOOSE k \in PunctuationAt(cs) :
            Cardinality({x \in PunctuationAt(cs) : x < k}) = j - 1
\* the codons strictly between the (j-1)-th and the j-th punctuation codon
Segment(cs, j) ==
    SubSeq(cs, NthPunctuation(cs, j - 1) + 1, NthPunctuation(cs, j) - 1)

\* C8: translation uses the floor(length / 2) leading codons in order: the
\* j-th enzyme holds the table's command and direction of each codon between
\* the (j-1)-th and the j-th punctuation codon, a non-empty open enzyme at
\* the end is emitted, an unpaired last symbol adds nothing, and no enzyme
\* holds the punctuation command.
C8_TranslationUsesLeadingCodons ==
    tr_pc = "done" =>
        LET cs == LeadingCodons(tr_string)
            np == Cardinality(PunctuationAt(cs))
            open == Segment(cs, np + 1)
        IN  /\ Len(tr_enzymes) = np + (IF open # <<>> THEN 1 ELSE 0)
            /\ \A j \in 1..Len(tr_enzymes) :
                  /\ tr_enzymes[j].seq =
                        [k \in 1..Len(Segment(cs, j)) |->
                            AMINO_DICT[Segment(cs, j)[k]].amino]
                  /\ tr_enzymes[j].directions =
                        [k \in 1..Len(Segment(cs, j)) |->
                            AMINO_DICT[Segment(cs, j)[k]].direction]
                  /\ ~PyIn("punctuation", tr_enzymes[j].seq)

\* an odd-length strand with a punctuation codon and an open last enzyme
C8_Witness ==
    /\ tr_pc = "done" /\ Len(tr_string) % 2 = 1
    /\ PunctuationAt(LeadingCodons(tr_string)) # {}
    /\ Len(tr_enzymes) = 2 /\ tr_enzymes[2].seq # <<>>

-----------------------------------------------------------------------------
(* Properties of Enzyme.__init__, checked under SpecEnz *)

\* the bases in the order of the net number of right turns
BindingBases == <<"A", "G", "T", "C">>

\* C11: the preferential binding base is A, G, T or C as count(r) - count(l)
\* is 0, 1, 2 or 3 modulo 4, the remainder taken non-negative (a multiple of
\* 4 is added before the division); it depends on nothing else.
C11_BindingByNetTurnsMod4 ==
    op_pc = "made" =>
        LET D == enzyme.directions
            n == (PyCount(D, "r") + 4 * Len(D)) - PyCount(D, "l")
        IN  enzyme.preferential_binding = BindingBases[(n % 4) + 1]

\* lefts outnumber rights by five: the remainder wraps to 3, the base is C
C11_Witness ==
    /\ op_pc = "made"
    /\ PyCount(enzyme.directions, "l") - PyCount(enzyme.directions, "r") = 5
    /\ enzyme.preferential_binding = "C"

-----------------------------------------------------------------------------
(* Properties of the steps of one Operation, checked under SpecOp *)

\* the step is one pass of the while loop of operate
IsDispatch == seq_i' # seq_i \/ (op_pc = "loop" /\ op_pc' = "loop")

\* the command the step dispatches
Dispatched == enzyme.seq[seq_i + 1]

\* the command dispatched last, in a state reached by a dispatch
LastDispatched == enzyme.seq[seq_i]

\* C12: a command is dispatched only where 0 <= bound < len(strand) - 1 and
\* seq_i < len(enzyme.seq); the dispatch has the effect of the command at
\* seq_i and of no other, and seq_i grows by exactly one.
C12_DispatchInOrder ==
    [][IsDispatch =>
        /\ 0 <= bound /\ bound < Len(strand) - 1
        /\ seq_i < Len(enzyme.seq)
        /\ seq_i' = seq_i + 1
        /\ enzyme' = enzyme
        /\ LET m == iter(enzyme, Self) IN
           /\ strand' = m.strand /\ second_strand' = m.second_strand
           /\ copy_mode' = m.copy_mode /\ bound' = m.bound
           /\ strings' = m.strings /\ final_strings' = final_strings
      ]_vars

\* three different commands have been dispatched one after the other
C12_Witness ==
    /\ op_pc = "loop" /\ seq_i = 3
    /\ Cardinality({enzyme.seq[k] : k \in 1..3}) = 3
    /\ bound > -1

\* C13: a move right or left with copy mode on that lands on an index of
\* the strand, the last one included, where the second strand holds a gap
\* writes the complement of the strand's symbol there, and changes nothing
\* else of the second strand and nothing of the strand.
C13_MoveCopiesAtEveryIndex ==
    [][(/\ IsDispatch /\ Dispatched \in {"mvr", "mvl"} /\ copy_mode
        /\ 0 <= bound' /\ bound' <= Len(strand) - 1
        /\ second_strand[bound' + 1] = Gap) =>
            /\ strand' = strand
            /\ second_strand' =
                  [second_strand EXCEPT
                      ![bound' + 1] = counterpart(strand[bound' + 1])]
      ]_vars

\* the target class of a leftward locate command
LeftTargets == IF Dispatched = "lpy" THEN {"T", "C"} ELSE {"A", "G"}

\* C14: lpy and lpu act alike up to the target class, as the mirror image of
\* rpy and rpu: the step ends at least one place left of where it began and
\* never below -1; it ends exactly one place left when no base of the target
\* class lies further left; when it ends further left and attached, it is on
\* a base of the target class.
C14_LeftLocateMirrorsRight ==
    [][(IsDispatch /\ Dispatched \in {"lpy", "lpu"}) =>
        /\ bound' <= bound - 1
        /\ bound' >= -1
        /\ (~\E t \in LeftTargets : PyIn(t, SubSeq(strand, 1, bound - 1)))
              => bound' = bound - 1
        /\ (bound' >= 0 /\ bound' < bound - 1)
              => strand[bound' + 1] \in LeftTargets
      ]_vars

\* C15: a cut at bound p records strand[p+1:] and the reverse of
\* second_strand[p+1:], in this order, keeps the first p + 1 symbols of both
\* strands, and leaves the bound at p, now the last index.
C15_CutRecordsAndTruncates ==
    [][(IsDispatch /\ Dispatched = "cut") =>
        /\ strings' = strings \o
              <<SubSeq(strand, bound + 2, Len(strand)),
                [k \in 1..(Len(second_strand) - bound - 1) |->
                    second_strand[Len(second_strand) + 1 - k]]>>
        /\ strand' = SubSeq(strand, 1, bound + 1)
        /\ second_strand' = SubSeq(second_strand, 1, bound + 1)
        /\ bound' = bound /\ bound' = Len(strand') - 1
      ]_vars

\* the strand ATGC has been cut at index 1: AT is left, GC is recorded
C15_Witness ==
    /\ op_pc = "loop" /\ seq_i >= 1 /\ LastDispatched = "cut"
    /\ strand = <<"A", "T">> /\ bound = 1
    /\ Len(strings) = 2 /\ strings[1] = <<"G", "C">>

\* s read from its last symbol to its first
Mirrored(s) == [k \in 1..Len(s) |-> s[Len(s) + 1 - k]]

\* C16: a swi at bound p with a gap at second_strand[p] detaches and changes
\* neither strand; otherwise the strand becomes the second strand reversed,
\* the second strand becomes the strand reversed, and the bound becomes
\* length - p - 1, on the symbol that was second_strand[p].
C16_SwitchSwapsAndReverses ==
    [][(IsDispatch /\ Dispatched = "swi") =>
        IF second_strand[bound + 1] = Gap
        THEN bound' = -1 /\ strand' = strand /\ second_strand' = second_strand
        ELSE /\ strand' = Mirrored(second_strand)
             /\ second_strand' = Mirrored(strand)
             /\ bound' = Len(strand) - bound - 1
             /\ strand'[bound' + 1] = second_strand[bound + 1]
      ]_vars

\* a swi has swapped the strands: the enzyme sits on a base of the new
\* strand, which has the gaps of the old second strand
C16_Witness ==
    /\ op_pc = "loop" /\ seq_i >= 1 /\ LastDispatched = "swi"
    /\ bound >= 0 /\ strand[bound + 1] \in Bases
    /\ PyIn(Gap, strand)
    /\ second_strand # Mirrored(second_strand)

\* C17: a del at bound p removes strand[p], moves the symbols right of p
\* one place left and appends a gap, so the strand keeps its length; the
\* second strand, the bound, copy mode and the recorded fragments stay.
C17_DeleteShiftsPrimaryOnly ==
    [][(IsDispatch /\ Dispatched = "del") =>
        /\ Len(strand') = Len(strand)
        /\ \A k \in 1..Len(strand) :
              strand'[k] = IF k <= bound THEN strand[k]
                           ELSE IF k < Len(strand) THEN strand[k + 1]
                           ELSE Gap
        /\ second_strand' = second_strand
        /\ bound' = bound /\ copy_mode' = copy_mode /\ strings' = strings
      ]_vars

\* a del in copy mode under a second strand that holds a base
C17_Witness ==
    /\ op_pc = "loop" /\ seq_i >= 1 /\ LastDispatched = "del"
    /\ copy_mode
    /\ \E k \in 1..Len(second_strand) : second_strand[k] \in Bases
    /\ strand[Len(strand)] = Gap

-----------------------------------------------------------------------------
(* Further properties of the generation driver, checked under SpecGen *)

\* the generation that has just ended translated to no enzyme
ZeroEnzymeGenerationEnded ==
    /\ enzyme_k = 1 /\ enzymes = <<>>
    /\ pc \in {"translate", "eval", "returned", "raised"}
    /\ exception # "KeyError"

\* C18: a generation whose strands translate to no enzyme produces the empty
\* list and does not fail; the run goes on and returns not-looped.
C18_NoEnzymesGiveEmptyGeneration ==
    ZeroEnzymeGenerationEnded =>
        /\ exception = "none" /\ pc # "raised"
        /\ LastGeneration >= 0
        /\ strings_per_generation[LastGeneration] = <<>>
        /\ pc = "returned" => loop_found = FALSE

-----------------------------------------------------------------------------
(* Further properties of one Operation, checked under SpecOp *)

\* the dispatched commands, seq[0] .. seq[seq_i - 1], include a cut
CutDispatched == \E k \in 1..seq_i : enzyme.seq[k] = "cut"

\* C19: a cut ends the run: once a cut is dispatched it is the last command
\* dispatched, the bound is the last index of the truncated strand, and the
\* run holds the two fragments of that one cut; no run holds more.
C19_CutEndsTheRun ==
    op_pc \in {"loop", "done"} =>
        /\ Len(strings) <= 2
        /\ CutDispatched =>
              /\ enzyme.seq[seq_i] = "cut"
              /\ \A k \in 1..(seq_i - 1) : enzyme.seq[k] # "cut"
              /\ bound = Len(strand) - 1
              /\ Len(strings) = 2
        /\ ~CutDispatched => strings = <<>>

\* a run ended by a cut although the next command of the enzyme is a cut too
C19_Witness ==
    /\ op_pc = "done" /\ CutDispatched
    /\ seq_i < Len(enzyme.seq) /\ enzyme.seq[seq_i + 1] = "cut"
    /\ Len(strings) = 2 /\ strings[1] # <<>>

\* the enzyme of the run has no cop command
NoCop == ~PyIn("cop", enzyme.seq)

\* the strands that the run's output may hold when nothing was copied
RunsOfPrimaryOrTail ==
    MaximalRuns(strand) \o (IF strings = <<>> THEN <<>> ELSE MaximalRuns(strings[1]))

\* in every state of a run without cop: copy mode off, second strand all gaps,
\* and the output made of runs of the primary strand and of its cut-off tail
NoCopState ==
    (op_pc \in {"loop", "done"} /\ NoCop) =>
        /\ ~copy_mode
        /\ \A k \in 1..Len(second_strand) : second_strand[k] = Gap
        /\ \A k \in 1..Len(final_strings) :
              \E j \in 1..Len(RunsOfPrimaryOrTail) :
                  final_strings[k] = RunsOfPrimaryOrTail[j]
        /\ op_pc = "done" => Len(final_strings) = Len(RunsOfPrimaryOrTail)

\* a swi dispatched in a run without cop detaches and swaps nothing
NoCopSwitch ==
    (NoCop /\ IsDispatch /\ Dispatched = "swi") =>
        /\ bound' = -1
        /\ strand' = strand
        /\ second_strand' = second_strand

\* C20: in a run whose enzyme has no cop, copy mode stays off and the second
\* strand holds only gaps in every state; every swi dispatched detaches the
\* enzyme and swaps nothing; every output strand is a run of the primary
\* strand or of its cut-off tail.
C20_NoCopNothingCopied == []NoCopState /\ [][NoCopSwitch]_vars

\* a run without cop that inserted a base, was detached by swi, and put out
\* a strand
C20_Witness ==
    /\ op_pc = "done" /\ NoCop
    /\ seq_i >= 2 /\ LastDispatched = "swi"
    /\ enzyme.seq[1] \in {"ina", "ing", "int", "inc"}
    /\ bound = -1
    /\ Len(second_strand) = Len(strand)
    /\ final_strings # <<>>

\* a pass of the while loop of operate
IsPass == op_pc = "loop" /\ op_pc' \in {"loop", "raised"}

====
